---- MODULE Spec2Model ----
(***************************************************************************)
(* Provider routing of the chat / image handlers of James-KW/Improve.      *)
(*                                                                         *)
(*  - the "Smart Model Rotation" module (ModelManager, callGeminiAPI),     *)
(*    whose modelManager is a module-level object shared by every request  *)
(*    the process serves;                                                  *)
(*  - the request handlers of api/chat.js and of the sibling variants,     *)
(*    with their per-request fallback loops, validation and responses.     *)
(*                                                                         *)
(* An await is the only place where another request can run (one JS event  *)
(* loop), so an action is the code between two awaits.                     *)
(***************************************************************************)
EXTENDS Integers, Sequences, FiniteSets, TLC

\* ------------------------------------------------------------------ bounds

\* Number of callGeminiAPI calls made during one behaviour (they may overlap).
MaxCalls == 2

\* Number of provider invocations made during one behaviour, all calls together.
MaxInvocations == 6

\* The value "no object" (undefined / null) of a JS variable.
None == "none"

\* ------------------------------------------------------- provider answers

\* Error messages a provider call can throw, as the text of error.message.
ErrorMessages ==
    { "429 Too Many Requests",
      "You exceeded your current quota",
      "Quota exceeded",
      "rate limit reached",
      "model is not found",
      "HTTP 404",
      "service unavailable",
      "MODEL_NOT_FOUND",
      "400 invalid request",
      "401 API key not valid" }

\* The substrings, among those a classifier of this repository looks for,
\* that each message contains (String.prototype.includes is case-sensitive).
Substrings(msg) ==
    CASE msg = "429 Too Many Requests"           -> {"429"}
      [] msg = "You exceeded your current quota" -> {"quota"}
      [] msg = "Quota exceeded"                  -> {"Quota"}
      [] msg = "rate limit reached"              -> {"limit"}
      [] msg = "model is not found"              -> {"not found"}
      [] msg = "HTTP 404"                        -> {"404"}
      [] msg = "service unavailable"             -> {"unavailable"}
      [] msg = "MODEL_NOT_FOUND"                 -> {"MODEL_NOT_FOUND"}
      [] msg = "503"                             -> {"503"}
      [] OTHER                                   -> {}

\* error.message.includes(sub)
Includes(msg, sub) == sub \in Substrings(msg)

\* ------------------------------------------------------------------ state

VARIABLES
    deployed,      \* the module of the repository this process runs
    env,           \* process.env: which API keys are configured
    catalog,       \* modelManager.models: the list getBestModel reads
    server,        \* server.js: the user document and the /api/generate requests
    failedModels,  \* modelManager.failedModels (names), shared by all calls
    calls,         \* the callGeminiAPI calls, by order of their start
    req,           \* the HTTP request a handler is serving
    hpc,           \* where the handler is: the await it is suspended at
    idx,           \* the position of the handler's loop in its model list
    hcalls,        \* the provider invocations made for the request, in order
    responses      \* the responses sent on res, in order

\* ------------------------------------------------- ModelManager (part_003)

\* this.models, in declaration order.
models ==
    << [name |-> "gemini-2.0-flash-lite",            type |-> "text", priority |-> 1],
       [name |-> "gemini-2.0-flash",                 type |-> "text", priority |-> 2],
       [name |-> "gemini-2.5-flash",                 type |-> "text", priority |-> 3],
       [name |-> "gemini-2.0-flash-exp",             type |-> "text", priority |-> 4],
       [name |-> "gemini-2.5-pro",                   type |-> "text", priority |-> 5],
       [name |-> "gemini-2.5-flash-lite",            type |-> "text", priority |-> 6],
       [name |-> "learnlm-2.0-flash-experimental",   type |-> "text", priority |-> 7],
       [name |-> "imagen-3.0-generate",              type |-> "image_generate", priority |-> 1],
       [name |-> "gemini-2.0-flash-preview-image-generation",
                                                     type |-> "image_generate", priority |-> 2],
       [name |-> "veo-2.0-generate-001",             type |-> "image_generate", priority |-> 3],
       [name |-> "gemini-2.0-flash-live",            type |-> "text", priority |-> 8],
       [name |-> "gemini-2.5-flash-live",            type |-> "text", priority |-> 9],
       [name |-> "gemini-2.5-flash-native-audio-dialog", type |-> "text", priority |-> 10],
       [name |-> "gemma-3-27b",                      type |-> "text", priority |-> 11],
       [name |-> "gemma-3-12b",                      type |-> "text", priority |-> 12],
       [name |-> "gemma-3-4b",                       type |-> "text", priority |-> 13],
       [name |-> "gemma-3-2b",                       type |-> "text", priority |-> 14],
       [name |-> "gemma-3-1b",                       type |-> "text", priority |-> 15],
       [name |-> "gemini-robotics-er-1.5-preview",   type |-> "text", priority |-> 16] >>

ModelNames == { models[i].name : i \in DOMAIN models }

ModelTypes == { "text", "image_generate" }

\* Positions in this.models of the models of a type.
OfType(type) == { i \in DOMAIN catalog : catalog[i].type = type }

PriorityOf(name) ==
    LET i == CHOOSE j \in DOMAIN models : models[j].name = name IN models[i].priority

TypeOf(name) ==
    LET i == CHOOSE j \in DOMAIN models : models[j].name = name IN models[i].type


\* getBestModel that falls back to the head of the list when the type has no
\* model (`|| this.models[0]`): C21 must tell.
getBestModelAnyType(type, failed) ==
    LET available == { i \in OfType(type) : catalog[i].name \notin failed }
        head == CHOOSE i \in available :
                    \A j \in available :
                        \/ catalog[i].priority < catalog[j].priority
                        \/ catalog[i].priority = catalog[j].priority /\ i <= j
        first == CHOOSE i \in OfType(type) : \A j \in OfType(type) : i <= j
    IN  IF available = {}
        THEN [ model  |-> IF OfType(type) = {} THEN catalog[1].name
                          ELSE catalog[first].name,
               failed |-> {} ]
        ELSE [ model |-> catalog[head].name, failed |-> failed ]

\* getBestModel with the comparison of the sort turned round
\* (b.priority - a.priority): C28 must tell.
getBestModelDescending(type, failed) ==
    LET available == { i \in OfType(type) : catalog[i].name \notin failed }
        head == CHOOSE i \in available :
                    \A j \in available :
                        \/ catalog[i].priority > catalog[j].priority
                        \/ catalog[i].priority = catalog[j].priority /\ i <= j
        first == CHOOSE i \in OfType(type) : \A j \in OfType(type) : i <= j
    IN  IF available = {}
        THEN [ model  |-> IF OfType(type) = {} THEN None ELSE catalog[first].name,
               failed |-> {} ]
        ELSE [ model |-> catalog[head].name, failed |-> failed ]

\* ModelManager.getBestModel(type): the model returned (None for undefined)
\* and the failed set it leaves behind.  availableModels is the filter sorted
\* by priority with a stable sort, so its head is the available model of the
\* least priority, the earliest declared among equals.
getBestModel(type, failed) ==
    LET available == { i \in OfType(type) : catalog[i].name \notin failed }
        head == CHOOSE i \in available :
                    \A j \in available :
                        \/ catalog[i].priority < catalog[j].priority
                        \/ catalog[i].priority = catalog[j].priority /\ i <= j
        first == CHOOSE i \in OfType(type) : \A j \in OfType(type) : i <= j
    IN  IF available = {}
        THEN [ model  |-> IF OfType(type) = {} THEN None ELSE catalog[first].name,
               failed |-> {} ]
        ELSE [ model |-> catalog[head].name, failed |-> failed ]

\* ModelManager.markModelFailed(modelName)
markModelFailed(modelName, failed) == failed \cup {modelName}

\* ModelManager.markModelSuccess(modelName)
markModelSuccess(modelName, failed) == failed \ {modelName}

rotVars == << failedModels, calls >>
hVars == << req, hpc, idx, hcalls, responses >>
vars == << deployed, env, catalog, server, failedModels, calls, req, hpc, idx, hcalls, responses >>

\* Requests to /api/generate that may overlap.
MaxRequests == 3

\* daily_limit of the user document.  The schema's default is 50; the users
\* of the model have a smaller one.
DailyLimit == 2

ServerRequests == 1 .. MaxRequests

\* A request to /api/generate before it arrives: api_key of its body, user
\* (daily_used of the document findOne gave it), whether it reached the
\* Gemini call, and the status it was answered with (0 for none).
IdleRequest ==
    [ pc |-> "idle", api_key |-> "none", found |-> 0, user |-> 0,
      invoked |-> FALSE, status |-> 0, used |-> 0 ]

\* The database holding one user, and the requests.
ServerIdle ==
    [ daily_used |-> 0, daily_limit |-> DailyLimit,
      requests |-> [r \in ServerRequests |-> IdleRequest] ]

\* process.env, as far as the code reads it: whether each key is set.
Envs == [ GEMINI_API_KEY : BOOLEAN, HUGGINGFACE_API_KEY : BOOLEAN ]

\* Every key configured.
Configured == [ GEMINI_API_KEY |-> TRUE, HUGGINGFACE_API_KEY |-> TRUE ]

Calls == 1 .. MaxCalls

\* --------------------------------------------------- requests, responses

Methods == { "POST", "OPTIONS", "GET" }

\* req.body.  message is "" when absent or empty, images the length of the
\* list (0 when absent), mode None when absent; mediaType and imageModel
\* are given their defaults by the destructuring.
Bodies ==
    [ message : { "", "hello" }, images : { 0, 1 },
      mode : { None, "chat", "analyze", "generate" },
      mediaType : { "image", "video" }, imageModel : { "flux", "stable", "simple" } ]

NoBody ==
    [ message |-> "", images |-> 0, mode |-> None, mediaType |-> "image",
      imageModel |-> "flux" ]

NoRequest == [ method |-> None, body |-> NoBody ]

\* The requests a handler can receive.
Requests == [ method : Methods, body : Bodies ]

\* JS truthiness of a string
Truthy(str) == str # "" /\ str # None

\* res.status(status).json(body): one response sent, success its field.  text says what
\* the text field carries, from the hcalls entry whose output it is (0: of no
\* invocation), error the error.message quoted in it.
Response(status, success, mode, modelUsed, text, from, error) ==
    [ status |-> status, success |-> success, mode |-> mode,
      modelUsed |-> modelUsed, text |-> text, from |-> from, error |-> error ]

\* A response whose body has no success field.
Reply(status, mode, modelUsed, text, from, error) ==
    [ status |-> status, mode |-> mode, modelUsed |-> modelUsed, text |-> text,
      from |-> from, error |-> error ]

HandlerIdle ==
    /\ req = NoRequest
    /\ hpc = "idle"
    /\ idx = 0
    /\ hcalls = << >>
    /\ responses = << >>

\* A provider invocation starts: its entry, the answer pending.
Invocation(provider, model) ==
    [ provider |-> provider, model |-> model, answer |-> "pending" ]

\* MethodResponse of a handler without its 405 test.
MethodResponseNo405(method) == Reply(200, None, None, None, 0, None)

\* if (req.method === 'OPTIONS') return res.status(200).end();
\* if (req.method !== 'POST') return res.status(405).json({ error });
MethodResponse(method) ==
    IF method = "OPTIONS"
    THEN Reply(200, None, None, None, 0, None)
    ELSE Reply(405, None, None, None, 0, "Method not allowed")

\* ------------------------------------------------ callGeminiAPI (part_003)

\* AttemptCap of a loop whose test fails at once (attempt > 5 for
\* attempt < 5): C22 must tell.
AttemptCapNone == 5 - 5

\* AttemptCap with the loop test off by one (attempt <= 5): C7 must tell.
AttemptCapOffByOne == 5 + 1

\* `for (let attempt = 0; attempt < 5; attempt++)`
AttemptCap == 5

Modes == { "chat", "analyze", "generate" }
MediaTypes == { "image", "video" }

\* Answers of the Gemini provider to one generateContent call.
GeminiErrors == { "429 Too Many Requests", "model is not found", "400 invalid request" }
GeminiAnswers == { "ok" } \cup GeminiErrors

\* "CORRECT Model Type Selection"
ModelType(mode, mediaType) ==
    IF mode = "generate" /\ mediaType = "image" THEN "image_generate" ELSE "text"

\* IsQuotaError of a catch block that never rethrows: C8 must tell.
IsQuotaErrorAlways(msg) == msg = msg

\* The catch block's test: a quota error lets the loop go on.
IsQuotaError(msg) ==
    Includes(msg, "429") \/ Includes(msg, "quota") \/ Includes(msg, "Quota")

IdleCall ==
    [ pc |-> "idle", modelType |-> None, attempt |-> 0, modelName |-> None,
      lastError |-> None, thrown |-> None, attempts |-> << >>, before |-> {},
      isolated |-> TRUE ]

RECURSIVE SumLen(_, _)
SumLen(f, S) ==
    IF S = {} THEN 0
    ELSE LET x == CHOOSE y \in S : TRUE IN Len(f[x].attempts) + SumLen(f, S \ {x})

\* Provider invocations made so far by all calls.
Invocations == SumLen(calls, Calls)

\* The head of the for loop, up to the await of generateContent: the loop
\* test, getBestModel, and the invocation of the model it returned.
LoopHead(c, base, attempt) ==
    LET call == base[c]
        best == getBestModel(call.modelType, failedModels) IN
    IF attempt < AttemptCap
    THEN /\ Invocations < MaxInvocations
         /\ failedModels' = best.failed
         /\ calls' = [base EXCEPT ![c] =
               IF best.model = None
               THEN [call EXCEPT !.pc = "thrown", !.attempt = attempt,
                                 !.thrown = "No available models for this task type"]
               ELSE [call EXCEPT !.pc = "generateContent", !.attempt = attempt,
                                 !.modelName = best.model,
                                 !.attempts = Append(@, [model |-> best.model,
                                                         answer |-> "pending"])]]
    ELSE \* throw lastError || new Error("All models failed")
         /\ failedModels' = failedModels
         /\ calls' = [base EXCEPT ![c] =
               [call EXCEPT !.pc = "thrown", !.attempt = attempt,
                            !.thrown = IF call.lastError = None
                                       THEN "All models failed" ELSE call.lastError]]

InFlight(call) == call.pc \in { "generateContent", "sleep" }

\* calls, with call c entered.  before and isolated are records kept for the
\* properties: the failed set the call found, and whether no other call was
\* in flight at any time of this one.
Entered(c, modelType) ==
    LET overlap == \E d \in Calls : InFlight(calls[d]) IN
    [d \in Calls |->
        IF d = c THEN [IdleCall EXCEPT !.modelType = modelType,
                                       !.before = failedModels,
                                       !.isolated = ~overlap]
        ELSE IF InFlight(calls[d]) THEN [calls[d] EXCEPT !.isolated = FALSE]
        ELSE calls[d]]

\* A caller enters callGeminiAPI(prompt, images, mode, mediaType).
CallStart(c) ==
    /\ deployed = "rotation"
    /\ calls[c].pc = "idle"
    /\ \A d \in Calls : d < c => calls[d].pc # "idle"
    /\ \E mode \in Modes, mediaType \in MediaTypes :
          LoopHead(c, Entered(c, ModelType(mode, mediaType)), 0)
    /\ UNCHANGED << deployed, env, catalog, server, hVars >>

\* The provider's answer to the invocation in flight, kept with it.
SetAnswer(attempts, answer) ==
    [attempts EXCEPT ![Len(attempts)] = [@ EXCEPT !.answer = answer]]

\* generateContent and result.response resolve: markModelSuccess, return.
GenerateSucceeds(c) ==
    /\ deployed = "rotation"
    /\ calls[c].pc = "generateContent"
    /\ failedModels' = markModelSuccess(calls[c].modelName, failedModels)
    /\ calls' = [calls EXCEPT ![c] =
          [@ EXCEPT !.pc = "returned", !.attempts = SetAnswer(@, "ok")]]
    /\ UNCHANGED << deployed, env, catalog, server, hVars >>

\* generateContent rejects: the catch block.
GenerateFails(c) ==
    /\ deployed = "rotation"
    /\ calls[c].pc = "generateContent"
    /\ \E msg \in GeminiErrors :
          /\ failedModels' = markModelFailed(calls[c].modelName, failedModels)
          /\ calls' = [calls EXCEPT ![c] =
                IF ~IsQuotaError(msg)
                THEN [@ EXCEPT !.pc = "thrown", !.lastError = msg, !.thrown = msg,
                               !.attempts = SetAnswer(@, msg)]
                ELSE [@ EXCEPT !.pc = "sleep", !.lastError = msg,
                               !.attempts = SetAnswer(@, msg)]]
    /\ UNCHANGED << deployed, env, catalog, server, hVars >>

\* The one-second pause ends: attempt++ and the head of the loop again.
SleepDone(c) ==
    /\ deployed = "rotation"
    /\ calls[c].pc = "sleep"
    /\ LoopHead(c, calls, calls[c].attempt + 1)
    /\ UNCHANGED << deployed, env, catalog, server, hVars >>

RotInit ==
    /\ deployed = "rotation"
    /\ env = Configured
    /\ catalog = models
    /\ server = ServerIdle
    /\ failedModels = {}
    /\ calls = [c \in Calls |-> IdleCall]
    /\ HandlerIdle

RotNext ==
    \E c \in Calls :
        \/ CallStart(c)
        \/ GenerateSucceeds(c)
        \/ GenerateFails(c)
        \/ SleepDone(c)

SpecRot == RotInit /\ [][RotNext]_vars

\* The caller of a call that is over has its result: the activation is gone
\* and the next request takes its place.
CallOver(c) ==
    /\ deployed = "rotation"
    /\ calls[c].pc \in { "returned", "thrown" }
    /\ calls' = [calls EXCEPT ![c] = IdleCall]
    /\ UNCHANGED << deployed, env, catalog, server, failedModels, hVars >>

\* The next request arrives when the previous one is over.
NextRequest(c) ==
    /\ \A d \in Calls : calls[d].pc = "idle"
    /\ CallStart(c)

\* The process serving requests without end, one after another.
RotNextForever ==
    \E c \in Calls :
        \/ NextRequest(c)
        \/ GenerateSucceeds(c)
        \/ GenerateFails(c)
        \/ SleepDone(c)
        \/ CallOver(c)

\* The event loop runs every continuation that is ready, the provider
\* answers every request, and the process goes on serving.
FairSpecRot == RotInit /\ [][RotNextForever]_vars /\ WF_vars(RotNextForever)

\* --------------------------------- ModelManager and the entry of a call,
\* --------------------------------- for any catalog and any failed set

\* this.models of the second ModelManager (part_003 line 703): the first
\* one's without the veo model.
modelsMultilingual ==
    SelectSeq(models, LAMBDA m : m.name # "veo-2.0-generate-001")

\* A catalog that holds no model of type image_generate.
modelsTextOnly == SelectSeq(models, LAMBDA m : m.type = "text")

Catalogs == { models, modelsMultilingual, modelsTextOnly }

\* Arguments of getBestModel(type): the two types callGeminiAPI computes
\* and one that no catalog holds.
TypeArguments == ModelTypes \cup { "video" }

NamesOfType(type) == { models[i].name : i \in { j \in DOMAIN models : models[j].type = type } }

\* The models requests mark first: the two best of each type.
BestNames == { models[i].name : i \in { j \in DOMAIN models : models[j].priority <= 2 } }

\* Contents of this.failedModels: any of the best models, with or without
\* every model of one type.
FailedSets ==
    { A \cup B : A \in SUBSET BestNames,
                 B \in { {}, NamesOfType("text"), NamesOfType("image_generate") } }

\* modelManager.getBestModel(type) called on its own.
MgrGetBestModel(type) ==
    /\ deployed = "manager"
    /\ calls[1].pc \in { "idle", "getBestModel" }
    /\ LET best == getBestModel(type, failedModels) IN
          /\ failedModels' = best.failed
          /\ calls' = [calls EXCEPT ![1] =
                [IdleCall EXCEPT !.pc = "getBestModel", !.modelType = type,
                                 !.modelName = best.model,
                                 !.before = failedModels]]
    /\ UNCHANGED << deployed, env, catalog, server, hVars >>

\* callGeminiAPI entered, up to its first await or its throw.
MgrCallGeminiAPI ==
    /\ deployed = "manager"
    /\ calls[1].pc \in { "idle", "getBestModel" }
    /\ \E mode \in Modes, mediaType \in MediaTypes :
          LoopHead(1, [calls EXCEPT ![1] =
                          [IdleCall EXCEPT !.modelType = ModelType(mode, mediaType),
                                           !.before = failedModels]], 0)
    /\ UNCHANGED << deployed, env, catalog, server, hVars >>

MgrInit ==
    /\ deployed = "manager"
    /\ env = Configured
    /\ catalog \in Catalogs
    /\ server = ServerIdle
    /\ failedModels \in FailedSets
    /\ calls = [c \in Calls |-> IdleCall]
    /\ HandlerIdle

MgrNext ==
    \/ \E type \in TypeArguments : MgrGetBestModel(type)
    \/ MgrCallGeminiAPI

SpecManager == MgrInit /\ [][MgrNext]_vars

\* ------------------------------------------- api/chat.js, the first module

\* Number of hcalls entries kept while generateWithSimpleModel calls itself
\* again: the earlier ones and the latest.
MaxRecorded == 6

\* const GEMINI_MODELS
GEMINI_MODELS ==
    << "gemini-2.5-flash-exp", "gemini-2.5-pro-exp", "gemini-2.0-flash-exp",
       "gemini-1.5-flash" >>

\* The Hugging Face model each generateWith... function posts to.
HfModel(fn) ==
    CASE fn = "flux"   -> "black-forest-labs/FLUX.1-schnell"
      [] fn = "stable" -> "stabilityai/stable-diffusion-xl-base-1.0"
      [] OTHER         -> "runwayml/stable-diffusion-v1-5"

\* Answers of the Hugging Face inference API to one fetch: the HTTP status,
\* or the fetch rejecting.
HfAnswers == { "200", "503", "401", "fetch failed" }

GrokAnswers == { "200", "500" }

\* ChatIsRetryable of a catch block that always continues: C10 must tell.
ChatIsRetryableAny(msg) == msg = msg

\* chatWithGemini's catch: the errors after which it tries the next model.
ChatIsRetryable(msg) ==
    \/ Includes(msg, "quota") \/ Includes(msg, "limit") \/ Includes(msg, "429")
    \/ Includes(msg, "not found") \/ Includes(msg, "unavailable")

\* The branch of the handler a POST body takes.
ChatBranch(body) ==
    IF body.mode = "generate" /\ Truthy(body.message) /\ body.mediaType = "image"
    THEN "generate"
    ELSE IF body.images > 0 THEN "analyze"
    ELSE IF Truthy(body.message) THEN "chat"
    ELSE "none"

\* The function the image generation branch calls first.
ChatPrimary(imageModel) ==
    IF imageModel = "flux" THEN "flux"
    ELSE IF imageModel = "stable" THEN "stable"
    ELSE "simple"

\* Settle of a call that is not awaited: the invocation stays in flight
\* while the code goes on.  C25 must tell.
SettleNotAwaited(h, answer) == h

Settle(h, answer) == [h EXCEPT ![Len(h)] = [@ EXCEPT !.answer = answer]]

\* Respond of a branch that lacks its return: the handler runs on.
RespondNoReturn(r) ==
    /\ responses' = Append(responses, r)
    /\ hpc' = hpc

\* return res.status(...).json(...): the response is sent, the handler is over.
Respond(r) ==
    /\ responses' = Append(responses, r)
    /\ hpc' = "done"

\* The handler, from its entry to its first await.
ChatReceive ==
    /\ deployed = "chat"
    /\ hpc = "idle"
    /\ \E r \in Requests :
        /\ req' = r
        /\ IF r.method # "POST"
           THEN /\ Respond(MethodResponse(r.method))
                /\ UNCHANGED << idx, hcalls >>
           ELSE CASE ChatBranch(r.body) = "generate" ->
                       /\ hpc' = ChatPrimary(r.body.imageModel)
                       /\ idx' = 1
                       /\ hcalls' = << Invocation("huggingface",
                                          HfModel(ChatPrimary(r.body.imageModel))) >>
                       /\ UNCHANGED responses
                  [] ChatBranch(r.body) \in { "analyze", "chat" } ->
                       /\ hpc' = "gemini"
                       /\ idx' = 1
                       /\ hcalls' = << Invocation("gemini", GEMINI_MODELS[1]) >>
                       /\ UNCHANGED responses
                  [] OTHER ->
                       /\ Respond(Response(400, FALSE, None, None, None, 0,
                                           "Message or image is required"))
                       /\ UNCHANGED << idx, hcalls >>
    /\ UNCHANGED << deployed, env, catalog, server, rotVars >>

\* chatWithGemini: generateContent resolves, the result is returned and the
\* handler answers with it.
ChatGeminiSucceeds ==
    /\ deployed = "chat"
    /\ hpc = "gemini"
    /\ hcalls' = Settle(hcalls, "ok")
    /\ Respond(Response(200, TRUE, ChatBranch(req.body), GEMINI_MODELS[idx],
                        "result.text", Len(hcalls), None))
    /\ UNCHANGED << deployed, env, catalog, server, rotVars, req, idx >>

\* chatWithGemini: generateContent rejects.  The catch block goes on to the
\* next model or throws; past the last model ALL_GEMINI_MODELS_FAILED is
\* thrown and the handler calls chatWithGrok; any other error is answered.
ChatGeminiFails ==
    /\ deployed = "chat"
    /\ hpc = "gemini"
    /\ \E msg \in GeminiErrors :
        IF ChatIsRetryable(msg)
        THEN IF idx < Len(GEMINI_MODELS)
             THEN /\ idx' = idx + 1
                  /\ hcalls' = Append(Settle(hcalls, msg),
                                      Invocation("gemini", GEMINI_MODELS[idx + 1]))
                  /\ UNCHANGED << hpc, responses >>
             ELSE /\ hpc' = "grok"
                  /\ hcalls' = Append(Settle(hcalls, msg), Invocation("grok", "grok-beta"))
                  /\ UNCHANGED << idx, responses >>
        ELSE /\ hcalls' = Settle(hcalls, msg)
             /\ Respond(Response(200, FALSE, None, None, "failed", 0, msg))
             /\ UNCHANGED idx
    /\ UNCHANGED << deployed, env, catalog, server, rotVars, req >>

\* ChatGrokAnswers of a handler that calls chatWithGrok again when it fails:
\* C23 must tell.
ChatGrokAnswersAgain ==
    /\ deployed = "chat"
    /\ hpc = "grok"
    /\ \E a \in GrokAnswers :
        IF a = "200"
        THEN /\ hcalls' = Settle(hcalls, a)
             /\ Respond(Response(200, TRUE, ChatBranch(req.body), "grok-beta",
                                 "grokResult.text", Len(hcalls), None))
        ELSE /\ hcalls' = Append(Settle(hcalls, a), Invocation("grok", "grok-beta"))
             /\ UNCHANGED << hpc, responses >>
    /\ UNCHANGED << deployed, env, catalog, server, rotVars, req, idx >>

\* chatWithGrok answers: response.ok or not (any failure is rethrown and the
\* handler answers success: false).
ChatGrokAnswers ==
    /\ deployed = "chat"
    /\ hpc = "grok"
    /\ \E a \in GrokAnswers :
        /\ hcalls' = Settle(hcalls, a)
        /\ IF a = "200"
           THEN Respond(Response(200, TRUE, ChatBranch(req.body), "grok-beta",
                                 "grokResult.text", Len(hcalls), None))
           ELSE Respond(Response(200, FALSE, None, None, "failed", 0, None))
    /\ UNCHANGED << deployed, env, catalog, server, rotVars, req, idx >>

\* The image answered with: modelUsed is imageModel whichever function made it.
ChatImageResponse ==
    Response(200, TRUE, "generate", req.body.imageModel, "IMAGE_GENERATED",
             Len(hcalls), None)

\* The primary model failed: generateWithSimpleModel is called as fallback.
ChatFallback(h) ==
    /\ hpc' = "simple"
    /\ idx' = 2
    /\ hcalls' = Append(h, Invocation("huggingface", HfModel("simple")))
    /\ UNCHANGED responses

\* generateWithFlux / generateWithStableDiffusion: the fetch is answered.
\* 503, any other status that is not ok and a rejected fetch all throw.
ChatPrimaryAnswers ==
    /\ deployed = "chat"
    /\ hpc \in { "flux", "stable" }
    /\ \E a \in HfAnswers :
        IF a = "200"
        THEN /\ hcalls' = Settle(hcalls, a)
             /\ Respond(ChatImageResponse)
             /\ UNCHANGED idx
        ELSE ChatFallback(Settle(hcalls, a))
    /\ UNCHANGED << deployed, env, catalog, server, rotVars, req >>

\* generateWithSimpleModel: the fetch is answered.  On 503 the function
\* waits ten seconds and calls itself; another failure throws, to the
\* fallback when this was the primary call (idx = 1) and to the handler's
\* catch when it was the fallback.
ChatSimpleAnswers ==
    /\ deployed = "chat"
    /\ hpc = "simple"
    /\ \E a \in HfAnswers :
        CASE a = "200" ->
               /\ hcalls' = Settle(hcalls, a)
               /\ Respond(ChatImageResponse)
               /\ UNCHANGED idx
          [] a = "503" ->
               /\ hcalls' = Settle(hcalls, a)
               /\ hpc' = "simpleWait"
               /\ UNCHANGED << idx, responses >>
          [] OTHER ->
               IF idx = 1
               THEN ChatFallback(Settle(hcalls, a))
               ELSE /\ hcalls' = Settle(hcalls, a)
                    /\ Respond(Response(200, FALSE, "generate", None, "failed", 0, a))
                    /\ UNCHANGED idx
    /\ UNCHANGED << deployed, env, catalog, server, rotVars, req >>

\* The ten seconds are over: return generateWithSimpleModel(prompt).
ChatSimpleAgain ==
    /\ deployed = "chat"
    /\ hpc = "simpleWait"
    /\ hpc' = "simple"
    /\ hcalls' = IF Len(hcalls) < MaxRecorded
                 THEN Append(hcalls, Invocation("huggingface", HfModel("simple")))
                 ELSE Settle(hcalls, "pending")
    /\ UNCHANGED << deployed, env, catalog, server, rotVars, req, idx, responses >>

ChatInit ==
    /\ deployed = "chat"
    /\ env = Configured
    /\ catalog = models
    /\ server = ServerIdle
    /\ failedModels = {}
    /\ calls = [c \in Calls |-> IdleCall]
    /\ HandlerIdle

ChatNext ==
    \/ ChatReceive
    \/ ChatGeminiSucceeds
    \/ ChatGeminiFails
    \/ ChatGrokAnswers
    \/ ChatPrimaryAnswers
    \/ ChatSimpleAnswers
    \/ ChatSimpleAgain

SpecChat == ChatInit /\ [][ChatNext]_vars

\* ------------------------------------- part_002, the Gemini-only handler

\* const modelConfig
modelConfig(mode) ==
    CASE mode = "chat"     -> << "gemini-1.5-flash", "gemini-1.5-pro", "gemini-2.0-flash" >>
      [] mode = "analyze"  -> << "gemini-1.5-flash", "gemini-1.5-pro" >>
      [] mode = "generate" -> << "gemini-1.5-flash", "gemini-1.5-pro" >>
      [] OTHER             -> << >>

\* const modelsToTry = modelConfig[mode] || modelConfig.chat;
modelsToTry(mode) ==
    IF mode \in { "chat", "analyze", "generate" } THEN modelConfig(mode)
    ELSE modelConfig("chat")

\* The mode the handler answers with, by the branch of the loop body taken.
GeminiOnlyMode(body) ==
    IF body.mode = "analyze" /\ body.images > 0 THEN "analyze"
    ELSE IF body.mode = "generate" THEN "generate"
    ELSE IF body.mode = None THEN "chat"
    ELSE body.mode

\* The handler, from its entry to the first generateContent.
GeminiOnlyReceive ==
    /\ deployed = "geminiOnly"
    /\ hpc = "idle"
    /\ \E r \in Requests :
        /\ req' = r
        /\ IF r.method # "POST"
           THEN /\ Respond(MethodResponse(r.method))
                /\ UNCHANGED << idx, hcalls >>
           ELSE IF ~Truthy(r.body.message) /\ r.body.images = 0
           THEN /\ Respond(Reply(400, None, None, None, 0,
                                 "Message or image is required"))
                /\ UNCHANGED << idx, hcalls >>
           ELSE /\ hpc' = "generateContent"
                /\ idx' = 1
                /\ hcalls' = << Invocation("gemini", modelsToTry(r.body.mode)[1]) >>
                /\ UNCHANGED responses
    /\ UNCHANGED << deployed, env, catalog, server, rotVars >>

\* generateContent resolves: the handler answers from inside the loop.
GeminiOnlySucceeds ==
    /\ deployed = "geminiOnly"
    /\ hpc = "generateContent"
    /\ hcalls' = Settle(hcalls, "ok")
    /\ Respond(Reply(200, GeminiOnlyMode(req.body),
                     modelsToTry(req.body.mode)[idx], "response.text",
                     Len(hcalls), None))
    /\ UNCHANGED << deployed, env, catalog, server, rotVars, req, idx >>

\* generateContent rejects: lastError = error; continue.  After the last
\* model lastError is thrown to the outer catch, which answers 500.
GeminiOnlyFails ==
    /\ deployed = "geminiOnly"
    /\ hpc = "generateContent"
    /\ \E msg \in GeminiErrors :
        IF idx < Len(modelsToTry(req.body.mode))
        THEN /\ idx' = idx + 1
             /\ hcalls' = Append(Settle(hcalls, msg),
                            Invocation("gemini", modelsToTry(req.body.mode)[idx + 1]))
             /\ UNCHANGED << hpc, responses >>
        ELSE /\ hcalls' = Settle(hcalls, msg)
             /\ Respond(Reply(500, None, None, None, 0, msg))
             /\ UNCHANGED idx
    /\ UNCHANGED << deployed, env, catalog, server, rotVars, req >>

GeminiOnlyInit ==
    /\ deployed = "geminiOnly"
    /\ env = Configured
    /\ catalog = models
    /\ server = ServerIdle
    /\ failedModels = {}
    /\ calls = [c \in Calls |-> IdleCall]
    /\ HandlerIdle

GeminiOnlyNext ==
    \/ GeminiOnlyReceive
    \/ GeminiOnlySucceeds
    \/ GeminiOnlyFails

SpecGeminiOnly == GeminiOnlyInit /\ [][GeminiOnlyNext]_vars

\* ------------------------- part_000, the "high quality" Hugging Face module

\* const GEMINI_MODELS
GEMINI_MODELS_HQ == << "gemini-2.0-flash-exp", "gemini-1.5-flash", "gemini-1.5-pro" >>

\* generateWithHuggingFace: const models (their names)
HqImageModels ==
    << "black-forest-labs/FLUX.1-schnell", "stabilityai/stable-diffusion-xl-base-1.0",
       "runwayml/stable-diffusion-v1-5" >>

\* chatWithGemini's catch: the errors after which it tries the next model.
HqIsRetryable(msg) ==
    \/ Includes(msg, "MODEL_NOT_FOUND") \/ Includes(msg, "not found")
    \/ Includes(msg, "404") \/ Includes(msg, "quota") \/ Includes(msg, "limit")
    \/ Includes(msg, "429")

\* The branch of the handler a POST body takes.
HqBranch(body) ==
    IF body.mode = "generate" /\ Truthy(body.message) THEN "generate"
    ELSE IF body.mode = "analyze" /\ body.images > 0 THEN "analyze"
    ELSE IF Truthy(body.message) THEN "chat"
    ELSE "none"

\* The handler, from its entry to its first await.
HqReceive ==
    /\ deployed = "highQuality"
    /\ hpc = "idle"
    /\ \E r \in Requests :
        /\ req' = r
        /\ IF r.method # "POST"
           THEN /\ Respond(MethodResponse(r.method))
                /\ UNCHANGED << idx, hcalls >>
           ELSE CASE HqBranch(r.body) = "generate" ->
                       /\ hpc' = "fetch"
                       /\ idx' = 1
                       /\ hcalls' = << Invocation("huggingface", HqImageModels[1]) >>
                       /\ UNCHANGED responses
                  [] HqBranch(r.body) \in { "analyze", "chat" } ->
                       /\ hpc' = "gemini"
                       /\ idx' = 1
                       /\ hcalls' = << Invocation("gemini", GEMINI_MODELS_HQ[1]) >>
                       /\ UNCHANGED responses
                  [] OTHER ->
                       /\ Respond(Response(400, FALSE, None, None, None, 0,
                                           "Message or image is required"))
                       /\ UNCHANGED << idx, hcalls >>
    /\ UNCHANGED << deployed, env, catalog, server, rotVars >>

\* HqFetchAnswers of a generateWithHuggingFace that throws on a 503 instead
\* of going on to the next model: C24 must tell.
HqFetchAnswers503Throws ==
    /\ deployed = "highQuality"
    /\ hpc = "fetch"
    /\ \E a \in HfAnswers :
        IF a = "200"
        THEN /\ hcalls' = Settle(hcalls, a)
             /\ Respond(Response(200, TRUE, "generate", None, "IMAGE_GENERATED",
                                 Len(hcalls), None))
             /\ UNCHANGED idx
        ELSE IF a # "503" /\ idx < Len(HqImageModels)
        THEN /\ idx' = idx + 1
             /\ hcalls' = Append(Settle(hcalls, a),
                                 Invocation("huggingface", HqImageModels[idx + 1]))
             /\ UNCHANGED << hpc, responses >>
        ELSE /\ hcalls' = Settle(hcalls, a)
             /\ Respond(Response(200, FALSE, "generate", None, "failed", 0,
                                 "All image generation models failed"))
             /\ UNCHANGED idx
    /\ UNCHANGED << deployed, env, catalog, server, rotVars, req >>

\* generateWithHuggingFace: the fetch of models[idx] is answered.  A 200 is
\* returned as the image; 503, another status and a rejected fetch all
\* continue with the next model, and after the last one the function throws
\* and the handler answers success: false.
HqFetchAnswers ==
    /\ deployed = "highQuality"
    /\ hpc = "fetch"
    /\ \E a \in HfAnswers :
        IF a = "200"
        THEN /\ hcalls' = Settle(hcalls, a)
             /\ Respond(Response(200, TRUE, "generate", None, "IMAGE_GENERATED",
                                 Len(hcalls), None))
             /\ UNCHANGED idx
        ELSE IF idx < Len(HqImageModels)
        THEN /\ idx' = idx + 1
             /\ hcalls' = Append(Settle(hcalls, a),
                                 Invocation("huggingface", HqImageModels[idx + 1]))
             /\ UNCHANGED << hpc, responses >>
        ELSE /\ hcalls' = Settle(hcalls, a)
             /\ Respond(Response(200, FALSE, "generate", None, "failed", 0,
                                 "All image generation models failed"))
             /\ UNCHANGED idx
    /\ UNCHANGED << deployed, env, catalog, server, rotVars, req >>

\* chatWithGemini: generateContent resolves.
HqGeminiSucceeds ==
    /\ deployed = "highQuality"
    /\ hpc = "gemini"
    /\ hcalls' = Settle(hcalls, "ok")
    /\ Respond(Response(200, TRUE, HqBranch(req.body), GEMINI_MODELS_HQ[idx],
                        "result.text", Len(hcalls), None))
    /\ UNCHANGED << deployed, env, catalog, server, rotVars, req, idx >>

\* chatWithGemini: generateContent rejects.
HqGeminiFails ==
    /\ deployed = "highQuality"
    /\ hpc = "gemini"
    /\ \E msg \in GeminiErrors :
        IF HqIsRetryable(msg)
        THEN IF idx < Len(GEMINI_MODELS_HQ)
             THEN /\ idx' = idx + 1
                  /\ hcalls' = Append(Settle(hcalls, msg),
                                      Invocation("gemini", GEMINI_MODELS_HQ[idx + 1]))
                  /\ UNCHANGED << hpc, responses >>
             ELSE /\ hpc' = "grok"
                  /\ hcalls' = Append(Settle(hcalls, msg), Invocation("grok", "grok-beta"))
                  /\ UNCHANGED << idx, responses >>
        ELSE /\ hcalls' = Settle(hcalls, msg)
             /\ Respond(Response(200, FALSE, None, None, "failed", 0, msg))
             /\ UNCHANGED idx
    /\ UNCHANGED << deployed, env, catalog, server, rotVars, req >>

\* chatWithGrok answers.
HqGrokAnswers ==
    /\ deployed = "highQuality"
    /\ hpc = "grok"
    /\ \E a \in GrokAnswers :
        /\ hcalls' = Settle(hcalls, a)
        /\ IF a = "200"
           THEN Respond(Response(200, TRUE, HqBranch(req.body), "grok-beta",
                                 "grokResult.text", Len(hcalls), None))
           ELSE Respond(Response(200, FALSE, None, None, "failed", 0, None))
    /\ UNCHANGED << deployed, env, catalog, server, rotVars, req, idx >>

HqInit ==
    /\ deployed = "highQuality"
    /\ env = Configured
    /\ catalog = models
    /\ server = ServerIdle
    /\ failedModels = {}
    /\ calls = [c \in Calls |-> IdleCall]
    /\ HandlerIdle

HqNext ==
    \/ HqReceive
    \/ HqFetchAnswers
    \/ HqGeminiSucceeds
    \/ HqGeminiFails
    \/ HqGrokAnswers

SpecHq == HqInit /\ [][HqNext]_vars

\* ------------------- part_003 (third module), the multilingual handler

\* Errors a Gemini call of this module can throw: none of its catch blocks
\* looks at the message.
MlErrors == { "429 Too Many Requests" }

\* Answers to checkPromptSafety's generateContent: the text, or an error.
SafetyAnswers == { "SAFE", "UNSAFE" } \cup MlErrors

\* Outcomes of generateWithGeminiModel: image data, or an error thrown.
ImageAnswers == { "image", "No image data received from Gemini" } \cup MlErrors

\* Outcomes of editImageWithGemini.
EditAnswers == { "image", "Editing failed - no image returned" } \cup MlErrors

\* generateImageSmart: const geminiModels
geminiModels == << "imagen-3.0-generate", "gemini-2.0-flash-preview-image-generation" >>

\* A provider invocation of this module starts: step says which function
\* makes it (candidate: a model tried for the image itself).
Step(provider, model, step) ==
    [ provider |-> provider, model |-> model, answer |-> "pending", step |-> step ]

\* The branch of the handler a POST body takes, past the API key check.
MlBranch(body) ==
    IF body.mode = "generate" /\ Truthy(body.message) /\ body.mediaType = "video"
    THEN "video"
    ELSE IF body.mode = "generate" /\ Truthy(body.message) /\ body.images > 0
    THEN "edit"
    ELSE IF body.mode = "generate" /\ Truthy(body.message) /\ body.mediaType = "image"
    THEN "generate"
    ELSE IF body.images > 0 THEN "analyze"
    ELSE IF Truthy(body.message) THEN "chat"
    ELSE "none"

\* The handler, from its entry to its first await.
MlReceive ==
    /\ deployed = "multilingual"
    /\ hpc = "idle"
    /\ \E r \in Requests :
        /\ req' = r
        /\ IF r.method # "POST"
           THEN /\ Respond(MethodResponse(r.method))
                /\ UNCHANGED << idx, hcalls >>
           ELSE IF ~env.GEMINI_API_KEY
           THEN /\ Respond(Reply(500, None, None, None, 0,
                                 "Gemini API Key not configured"))
                /\ UNCHANGED << idx, hcalls >>
           ELSE CASE MlBranch(r.body) = "video" ->
                       /\ Respond(Response(200, FALSE, "generate", None,
                                           "Video generation is temporarily unavailable",
                                           0, None))
                       /\ UNCHANGED << idx, hcalls >>
                  [] MlBranch(r.body) = "edit" ->
                       /\ hpc' = "edit"
                       /\ hcalls' = << Step("gemini", "gemini-2.0-flash-exp", "edit") >>
                       /\ UNCHANGED << idx, responses >>
                  [] MlBranch(r.body) = "generate" ->
                       /\ hpc' = "enhance"
                       /\ hcalls' = << Step("gemini", "gemini-2.0-flash-lite", "enhance") >>
                       /\ UNCHANGED << idx, responses >>
                  [] MlBranch(r.body) = "analyze" ->
                       /\ hpc' = "analyze"
                       /\ hcalls' = << Step("gemini", "gemini-2.0-flash-exp", "analyze") >>
                       /\ UNCHANGED << idx, responses >>
                  [] MlBranch(r.body) = "chat" ->
                       /\ hpc' = "chat"
                       /\ hcalls' = << Step("gemini", "gemini-2.0-flash-lite", "chat") >>
                       /\ UNCHANGED << idx, responses >>
                  [] OTHER ->
                       /\ Respond(Reply(400, None, None, None, 0,
                                        "Message or image is required"))
                       /\ UNCHANGED << idx, hcalls >>
    /\ UNCHANGED << deployed, env, catalog, server, rotVars >>

\* The handler awaits generateImageMessage, in the try block after the image
\* was made or in the catch block after it failed.
MlImageMessage(h) ==
    /\ hpc' = "message"
    /\ hcalls' = Append(h, Step("gemini", "gemini-2.0-flash-lite", "message"))
    /\ UNCHANGED << idx, responses >>

\* editImageWithGemini is answered.
MlEditAnswers ==
    /\ deployed = "multilingual"
    /\ hpc = "edit"
    /\ \E a \in EditAnswers : MlImageMessage(Settle(hcalls, a))
    /\ UNCHANGED << deployed, env, catalog, server, rotVars, req >>

\* enhancePromptMultilingual is answered (on an error the original prompt is
\* used); generateImageSmart starts with checkPromptSafety.
MlEnhanceAnswers ==
    /\ deployed = "multilingual"
    /\ hpc = "enhance"
    /\ \E a \in { "ok" } \cup MlErrors :
        /\ hpc' = "safety"
        /\ hcalls' = Append(Settle(hcalls, a),
                            Step("gemini", "gemini-2.0-flash-lite", "safety"))
    /\ UNCHANGED << deployed, env, catalog, server, rotVars, req, idx, responses >>

\* generateImageSmart calls generateWithHuggingFace, which throws before its
\* fetch when the key is not configured; generateImageSmart rethrows and the
\* handler's catch block awaits generateImageMessage.
MlHuggingFace(h) ==
    IF ~env.HUGGINGFACE_API_KEY
    THEN MlImageMessage(h)
    ELSE /\ hpc' = "hf"
         /\ hcalls' = Append(h, Step("huggingface", "black-forest-labs/FLUX.1-schnell",
                                     "candidate"))
         /\ UNCHANGED << idx, responses >>

\* MlSafetyAnswers of a checkPromptSafety whose catch block returns true:
\* an error of the safety check lets the Gemini image models be tried.  C32
\* must tell.
MlSafetyAnswersErrorSafe ==
    /\ deployed = "multilingual"
    /\ hpc = "safety"
    /\ \E a \in SafetyAnswers :
        IF a # "UNSAFE"
        THEN /\ hpc' = "geminiImage"
             /\ idx' = 1
             /\ hcalls' = Append(Settle(hcalls, a),
                                 Step("gemini", geminiModels[1], "candidate"))
             /\ UNCHANGED responses
        ELSE MlHuggingFace(Settle(hcalls, a))
    /\ UNCHANGED << deployed, env, catalog, server, rotVars, req >>

\* checkPromptSafety is answered: only the text SAFE lets the Gemini image
\* models be tried.
MlSafetyAnswers ==
    /\ deployed = "multilingual"
    /\ hpc = "safety"
    /\ \E a \in SafetyAnswers :
        IF a = "SAFE"
        THEN /\ hpc' = "geminiImage"
             /\ idx' = 1
             /\ hcalls' = Append(Settle(hcalls, a),
                                 Step("gemini", geminiModels[1], "candidate"))
             /\ UNCHANGED responses
        ELSE MlHuggingFace(Settle(hcalls, a))
    /\ UNCHANGED << deployed, env, catalog, server, rotVars, req >>

\* generateWithGeminiModel(prompt, geminiModels[idx]) is answered.
MlGeminiImageAnswers ==
    /\ deployed = "multilingual"
    /\ hpc = "geminiImage"
    /\ \E a \in ImageAnswers :
        IF a = "image"
        THEN MlImageMessage(Settle(hcalls, a))
        ELSE IF idx < Len(geminiModels)
        THEN /\ idx' = idx + 1
             /\ hcalls' = Append(Settle(hcalls, a),
                                 Step("gemini", geminiModels[idx + 1], "candidate"))
             /\ UNCHANGED << hpc, responses >>
        ELSE MlHuggingFace(Settle(hcalls, a))
    /\ UNCHANGED << deployed, env, catalog, server, rotVars, req >>

\* generateWithHuggingFace: the fetch is answered.
MlHfAnswers ==
    /\ deployed = "multilingual"
    /\ hpc = "hf"
    /\ \E a \in HfAnswers : MlImageMessage(Settle(hcalls, a))
    /\ UNCHANGED << deployed, env, catalog, server, rotVars, req >>

\* The invocations made for the image itself.
MlCandidates(h) == { i \in DOMAIN h : h[i].step \in { "edit", "candidate" } }

\* The response of the two image branches, h the invocations made: the try
\* block's when the image was made, the catch block's otherwise.
MlImageResponse(h) ==
    LET last == CHOOSE i \in MlCandidates(h) : \A j \in MlCandidates(h) : j <= i IN
    IF MlCandidates(h) # {} /\ h[last].answer \in { "image", "200" }
    THEN Response(200, TRUE, "generate",
                  IF h[last].step = "edit" THEN "gemini_edit"
                  ELSE IF h[last].provider = "huggingface" THEN "FLUX.1-schnell"
                  ELSE h[last].model,
                  "IMAGE_GENERATED", last, None)
    ELSE Response(200, FALSE, "generate", None, "failed", 0,
                  IF MlCandidates(h) # {} /\ h[last].step = "edit" THEN h[last].answer
                  ELSE IF ~env.HUGGINGFACE_API_KEY
                  THEN "All image generation failed: Hugging Face API Key not configured"
                  ELSE "All image generation failed: HuggingFace error")

\* MlMessageAnswers of a generateImageMessage without its catch block: its
\* error reaches the handler, which answers with a failure.  C34 must tell.
MlMessageAnswersThrows ==
    /\ deployed = "multilingual"
    /\ hpc = "message"
    /\ \E a \in { "ok" } \cup MlErrors :
        /\ hcalls' = Settle(hcalls, a)
        /\ IF a = "ok"
           THEN Respond(MlImageResponse(hcalls))
           ELSE Respond(Response(200, FALSE, "generate", None, "failed", 0, a))
    /\ UNCHANGED << deployed, env, catalog, server, rotVars, req, idx >>

\* generateImageMessage is answered (on an error its fixed message is used)
\* and the handler responds.
MlMessageAnswers ==
    /\ deployed = "multilingual"
    /\ hpc = "message"
    /\ \E a \in { "ok" } \cup MlErrors :
        /\ hcalls' = Settle(hcalls, a)
        /\ Respond(MlImageResponse(hcalls))
    /\ UNCHANGED << deployed, env, catalog, server, rotVars, req, idx >>

\* analyzeImageMultilingual, or the chat branch's generateContent, is
\* answered.
MlTextAnswers ==
    /\ deployed = "multilingual"
    /\ hpc \in { "analyze", "chat" }
    /\ \E a \in { "ok" } \cup MlErrors :
        /\ hcalls' = Settle(hcalls, a)
        /\ IF a = "ok"
           THEN Respond(Response(200, TRUE, hpc, None, "response", Len(hcalls), None))
           ELSE Respond(Response(200, FALSE, hpc, None, "failed", 0, a))
    /\ UNCHANGED << deployed, env, catalog, server, rotVars, req, idx >>

MlInit ==
    /\ deployed = "multilingual"
    /\ env \in Envs
    /\ catalog = models
    /\ server = ServerIdle
    /\ failedModels = {}
    /\ calls = [c \in Calls |-> IdleCall]
    /\ HandlerIdle

MlNext ==
    \/ MlReceive
    \/ MlEditAnswers
    \/ MlEnhanceAnswers
    \/ MlSafetyAnswers
    \/ MlGeminiImageAnswers
    \/ MlHfAnswers
    \/ MlMessageAnswers
    \/ MlTextAnswers

SpecMl == MlInit /\ [][MlNext]_vars

\* ------------------------------ part_004, the "free generation" handler

\* The branch of the handler a POST body takes.
FreeBranch(body) ==
    IF body.mode = "generate" /\ Truthy(body.message) /\ body.mediaType = "image"
    THEN "image"
    ELSE IF body.mode = "generate" /\ Truthy(body.message) /\ body.mediaType = "video"
    THEN "video"
    ELSE IF body.images > 0 THEN "analyze"
    ELSE IF Truthy(body.message) THEN "chat"
    ELSE "none"

\* The model each branch invokes.
FreeModel(branch) ==
    CASE branch = "image" -> "stabilityai/stable-diffusion-xl-base-1.0"
      [] branch = "video" -> "stabilityai/stable-video-diffusion-img2vid"
      [] OTHER            -> "gemini-2.0-flash-exp"

\* The handler, from its entry to its first await.
FreeReceive ==
    /\ deployed = "free"
    /\ hpc = "idle"
    /\ \E r \in Requests :
        /\ req' = r
        /\ IF r.method # "POST"
           THEN /\ Respond(MethodResponse(r.method))
                /\ UNCHANGED << idx, hcalls >>
           ELSE IF FreeBranch(r.body) = "none"
           THEN /\ Respond(Reply(400, None, None, None, 0,
                                 "Message or image is required"))
                /\ UNCHANGED << idx, hcalls >>
           ELSE /\ hpc' = FreeBranch(r.body)
                /\ hcalls' = << Invocation(IF FreeBranch(r.body) \in { "image", "video" }
                                           THEN "huggingface" ELSE "gemini",
                                           FreeModel(FreeBranch(r.body))) >>
                /\ UNCHANGED << idx, responses >>
    /\ UNCHANGED << deployed, env, catalog, server, rotVars >>

\* generateWithStableDiffusion / generateWithStableVideo: the fetch is
\* answered.  A status that is not ok has its body read before the throw.
FreeFetchAnswers ==
    /\ deployed = "free"
    /\ hpc \in { "image", "video" }
    /\ \E a \in HfAnswers :
        /\ hcalls' = Settle(hcalls, a)
        /\ CASE a = "200" ->
                  Respond(Response(200, TRUE, "generate", None,
                                   IF hpc = "image" THEN "IMAGE_GENERATED"
                                   ELSE "VIDEO_GENERATED", Len(hcalls), None))
             [] a = "fetch failed" ->
                  Respond(Response(200, FALSE, "generate", None, "failed", 0, a))
             [] OTHER ->
                  /\ hpc' = "errorData"
                  /\ UNCHANGED responses
    /\ UNCHANGED << deployed, env, catalog, server, rotVars, req, idx >>

\* await response.json() of the error body settles, either way an error is
\* thrown and the branch's catch block answers.
FreeErrorData ==
    /\ deployed = "free"
    /\ hpc = "errorData"
    /\ Respond(Response(200, FALSE, "generate", None, "failed", 0,
                        hcalls[Len(hcalls)].answer))
    /\ UNCHANGED << deployed, env, catalog, server, rotVars, req, idx, hcalls >>

\* generateContent of the analysis or chat branch is answered.
FreeGeminiAnswers ==
    /\ deployed = "free"
    /\ hpc \in { "analyze", "chat" }
    /\ \E a \in { "ok" } \cup MlErrors :
        /\ hcalls' = Settle(hcalls, a)
        /\ IF a = "ok"
           THEN Respond(Response(200, TRUE, hpc, None, "response.text", Len(hcalls), None))
           ELSE Respond(Response(200, FALSE, hpc, None, "failed", 0, a))
    /\ UNCHANGED << deployed, env, catalog, server, rotVars, req, idx >>

FreeInit ==
    /\ deployed = "free"
    /\ env = Configured
    /\ catalog = models
    /\ server = ServerIdle
    /\ failedModels = {}
    /\ calls = [c \in Calls |-> IdleCall]
    /\ HandlerIdle

FreeNext ==
    \/ FreeReceive
    \/ FreeFetchAnswers
    \/ FreeErrorData
    \/ FreeGeminiAnswers

SpecFree == FreeInit /\ [][FreeNext]_vars

\* ------------------------------------ server.js (part_002), /api/generate

ApiKeys == { "ds_user", "ds_unknown" }

\* server, with request r changed to q.
WithRequest(r, q) == [server EXCEPT !.requests = [@ EXCEPT ![r] = q]]

\* The handler, from its entry to the await of User.findOne.
SrvReceive(r) ==
    /\ deployed = "server"
    /\ server.requests[r].pc = "idle"
    /\ \E k \in ApiKeys :
          server' = WithRequest(r, [IdleRequest EXCEPT !.pc = "findOne", !.api_key = k])
    /\ UNCHANGED << deployed, env, catalog, rotVars, hVars >>

\* findOne resolves with a copy of the document as it is now: 401 without
\* one, 429 when its daily_used has reached daily_limit, and otherwise the
\* Gemini call starts.
SrvFindOne(r) ==
    LET q == server.requests[r] IN
    /\ deployed = "server"
    /\ q.pc = "findOne"
    /\ server' = WithRequest(r,
          IF q.api_key # "ds_user"
          THEN [q EXCEPT !.pc = "done", !.status = 401]
          ELSE IF server.daily_used >= server.daily_limit
          THEN [q EXCEPT !.pc = "done", !.status = 429,
                         !.found = server.daily_used, !.user = server.daily_used]
          ELSE [q EXCEPT !.pc = "generateContent", !.invoked = TRUE,
                         !.found = server.daily_used, !.user = server.daily_used])
    /\ UNCHANGED << deployed, env, catalog, rotVars, hVars >>

\* generateContent resolves: user.daily_used += 1 on the copy, then the
\* await of user.save().
SrvGenerated(r) ==
    LET q == server.requests[r] IN
    /\ deployed = "server"
    /\ q.pc = "generateContent"
    /\ server' = WithRequest(r, [q EXCEPT !.pc = "save", !.user = q.user + 1])
    /\ UNCHANGED << deployed, env, catalog, rotVars, hVars >>

\* generateContent rejects: nothing catches it, the handler's promise is
\* rejected and no response is sent.
SrvRejected(r) ==
    LET q == server.requests[r] IN
    /\ deployed = "server"
    /\ q.pc = "generateContent"
    /\ server' = WithRequest(r, [q EXCEPT !.pc = "rejected"])
    /\ UNCHANGED << deployed, env, catalog, rotVars, hVars >>

\* save resolves: the document's daily_used is set to the copy's, and the
\* response reports the copy's usage.
SrvSaved(r) ==
    LET q == server.requests[r] IN
    /\ deployed = "server"
    /\ q.pc = "save"
    /\ server' = [server EXCEPT
          !.daily_used = q.user,
          !.requests = [@ EXCEPT ![r] = [q EXCEPT !.pc = "done", !.status = 200,
                                                  !.used = q.user]]]
    /\ UNCHANGED << deployed, env, catalog, rotVars, hVars >>

SrvInit ==
    /\ deployed = "server"
    /\ env = Configured
    /\ catalog = models
    /\ server = ServerIdle
    /\ failedModels = {}
    /\ calls = [c \in Calls |-> IdleCall]
    /\ HandlerIdle

SrvNext ==
    \E r \in ServerRequests :
        \/ SrvReceive(r)
        \/ SrvFindOne(r)
        \/ SrvGenerated(r)
        \/ SrvRejected(r)
        \/ SrvSaved(r)

SpecServer == SrvInit /\ [][SrvNext]_vars

\* ------------------------------------------ generateWithGemini (part_003)

\* generateWithGemini: const imageModels
imageModels ==
    << "imagen-3.0-generate", "gemini-2.0-flash-preview-image-generation",
       "veo-2.0-generate-001" >>

\* What generateContent gives generateWithGemini: a response whose first part
\* is inlineData, one whose text is image data ("data:image"), one whose text
\* is anything else, a result without a response, or an error thrown (by
\* generateContent or by response.text()).
NativeAnswers ==
    { "inlineData", "data:image", "text", "no response" } \cup GeminiErrors

\* Method 1 and Method 2: the answers generateWithGemini returns an image for.
HasImageData(answer) == answer \in { "inlineData", "data:image" }

\* generateWithGemini(prompt) is entered: the first model is invoked.
NativeStart ==
    /\ deployed = "generateWithGemini"
    /\ hpc = "idle"
    /\ hpc' = "generateContent"
    /\ idx' = 1
    /\ hcalls' = << Invocation("gemini", imageModels[1]) >>
    /\ UNCHANGED << deployed, env, catalog, server, rotVars, req, responses >>

\* NativeAnswered of a loop whose catch block rethrows: C33 must tell.
NativeAnsweredRethrows ==
    /\ deployed = "generateWithGemini"
    /\ hpc = "generateContent"
    /\ \E a \in NativeAnswers :
        IF HasImageData(a)
        THEN /\ hpc' = "returned"
             /\ hcalls' = Settle(hcalls, a)
             /\ UNCHANGED idx
        ELSE IF idx < Len(imageModels) /\ a \notin GeminiErrors
        THEN /\ idx' = idx + 1
             /\ hcalls' = Append(Settle(hcalls, a),
                                 Invocation("gemini", imageModels[idx + 1]))
             /\ UNCHANGED hpc
        ELSE /\ hpc' = "thrown"
             /\ hcalls' = Settle(hcalls, a)
             /\ UNCHANGED idx
    /\ UNCHANGED << deployed, env, catalog, server, rotVars, req, responses >>

\* generateContent of imageModels[idx] is answered: image data is returned;
\* text, no response and an error go on to the next model; after the last
\* model the function throws.
NativeAnswered ==
    /\ deployed = "generateWithGemini"
    /\ hpc = "generateContent"
    /\ \E a \in NativeAnswers :
        IF HasImageData(a)
        THEN /\ hpc' = "returned"
             /\ hcalls' = Settle(hcalls, a)
             /\ UNCHANGED idx
        ELSE IF idx < Len(imageModels)
        THEN /\ idx' = idx + 1
             /\ hcalls' = Append(Settle(hcalls, a),
                                 Invocation("gemini", imageModels[idx + 1]))
             /\ UNCHANGED hpc
        ELSE /\ hpc' = "thrown"
             /\ hcalls' = Settle(hcalls, a)
             /\ UNCHANGED idx
    /\ UNCHANGED << deployed, env, catalog, server, rotVars, req, responses >>

NativeInit ==
    /\ deployed = "generateWithGemini"
    /\ env = Configured
    /\ catalog = models
    /\ server = ServerIdle
    /\ failedModels = {}
    /\ calls = [c \in Calls |-> IdleCall]
    /\ HandlerIdle

NativeNext == NativeStart \/ NativeAnswered

SpecNative == NativeInit /\ [][NativeNext]_vars

\* ------------------------------------------------------- the repository

\* Each module is deployed as a function of its own: a process runs one.
Init == RotInit \/ ChatInit \/ GeminiOnlyInit \/ HqInit \/ MlInit \/ FreeInit

Next == RotNext \/ ChatNext \/ GeminiOnlyNext \/ HqNext \/ MlNext \/ FreeNext

Spec == Init /\ [][Next]_vars

\* ---------------------------------------------------- fair specifications

\* Every continuation whose await has resolved is run by the event loop, and
\* every provider call is answered.
FairSpecChat == SpecChat /\ WF_vars(ChatNext)

\* ------------------------------------------------------ properties: routing

\* The retryable class of the error taxonomy: HTTP 429, the substrings quota
\* (in either case), limit, not found, 404, unavailable, MODEL_NOT_FOUND, and
\* HTTP 503.
TaxonomyRetryable(answer) ==
    Substrings(answer) \cap
        { "429", "quota", "Quota", "limit", "not found", "404", "unavailable",
          "MODEL_NOT_FOUND", "503" } # {}

Succeeded(answer) == answer \in { "ok", "200", "image", "SAFE", "UNSAFE" }

Failed(answer) == answer # "pending" /\ ~Succeeded(answer)

\* A failure of the fatal class: any that is not retryable.
Fatal(answer) == Failed(answer) /\ ~TaxonomyRetryable(answer)

\* The outcome of an attempt record.
Outcome(answer) ==
    IF answer = "pending" THEN "pending"
    ELSE IF Succeeded(answer) THEN "success"
    ELSE IF TaxonomyRetryable(answer) THEN "retryable-failure"
    ELSE "fatal-failure"

Completed(call) == call.pc \in { "returned", "thrown" }

\* No model occurs twice among the invocations of a call.
NoRepeat(attempts) ==
    \A i, j \in DOMAIN attempts : i < j => attempts[i].model # attempts[j].model

\* The last response sent.
LastResponse == responses[Len(responses)]

\* The Gemini invocations of the request, in order.
GeminiCalls == SelectSeq(hcalls, LAMBDA r : r.provider = "gemini")

\* C1: a callGeminiAPI call during which no other call is in flight never
\* invokes a model a second time, for either model type and whatever the
\* provider answers.
C1_NoRetryWithinCall ==
    \A c \in Calls : calls[c].isolated => NoRepeat(calls[c].attempts)

\* C2: under any interleaving of the calls that share modelManager, no call
\* invokes the same model twice.
C2_AttemptedOwnedByCall ==
    \A c \in Calls :
        \A i, j \in DOMAIN calls[c].attempts :
            calls[c].attempts[i].model = calls[c].attempts[j].model => i = j

\* C3: the models invoked by a call form a sequence of non-decreasing
\* priority.
C3_NonDecreasingPriority ==
    \A c \in Calls : \A i, j \in DOMAIN calls[c].attempts :
        i < j => PriorityOf(calls[c].attempts[i].model)
                    <= PriorityOf(calls[c].attempts[j].model)

\* Every model invoked in the two calls gave the same answer each time.
Deterministic(a1, a2) ==
    LET all == a1 \o a2 IN
    \A i, j \in DOMAIN all : all[i].model = all[j].model => all[i].answer = all[j].answer

\* C4: two calls made one after the other with the same request, against a
\* provider whose answer depends only on the model, make attempt sequences
\* of the same length, the same models and the same outcomes.
C4_Idempotent ==
    \A c, d \in Calls :
        ( /\ d = c + 1
          /\ Completed(calls[c]) /\ Completed(calls[d])
          /\ calls[c].isolated /\ calls[d].isolated
          /\ calls[c].modelType = calls[d].modelType
          /\ Deterministic(calls[c].attempts, calls[d].attempts) )
        => /\ Len(calls[c].attempts) = Len(calls[d].attempts)
           /\ \A i \in DOMAIN calls[c].attempts :
                /\ calls[c].attempts[i].model = calls[d].attempts[i].model
                /\ Outcome(calls[c].attempts[i].answer) = Outcome(calls[d].attempts[i].answer)

\* C5: once a call has completed, by returning or by throwing, the failed
\* set of modelManager is what it was when the call started (the call ran
\* alone and no call was started after it).
C5_NoTraceLeft ==
    \A c \in Calls :
        ( /\ Completed(calls[c])
          /\ calls[c].isolated
          /\ \A d \in Calls : d > c => calls[d].pc = "idle" )
        => failedModels = calls[c].before

\* C6: every POST eventually receives a response, each provider call being
\* answered.
C6_EveryPostAnswered ==
    (req.method = "POST") ~> (Len(responses) > 0)

\* C7: a routing call for a text task makes at most min(number of text
\* candidates, attempt cap) provider invocations: callGeminiAPI at most 5,
\* chatWithGemini at most one per entry of GEMINI_MODELS.
C7_TextRoutingBounded ==
    /\ \A c \in Calls :
          calls[c].modelType = "text" =>
             /\ Len(calls[c].attempts) <= 5
             /\ Len(calls[c].attempts) <= Cardinality(OfType("text"))
    /\ deployed = "chat" =>
          /\ Len(GeminiCalls) <= Len(GEMINI_MODELS)
          /\ \A i \in DOMAIN GeminiCalls : GeminiCalls[i].model = GEMINI_MODELS[i]

\* C7, witness: a text call that made the five invocations the cap allows
\* and gave up.
C7_Witness ==
    \E c \in Calls :
        /\ calls[c].modelType = "text"
        /\ calls[c].pc = "thrown"
        /\ Len(calls[c].attempts) = 5
        /\ \A i \in 1 .. 5 : TaxonomyRetryable(calls[c].attempts[i].answer)

\* C8: when a candidate fails with a fatal error, the routing call ends with
\* that error at once: that invocation is the last one of the call.
C8_FatalEndsCall ==
    /\ \A c \in Calls : \A i \in DOMAIN calls[c].attempts :
          Fatal(calls[c].attempts[i].answer) =>
             /\ i = Len(calls[c].attempts)
             /\ calls[c].pc = "thrown"
             /\ calls[c].thrown = calls[c].attempts[i].answer
    /\ deployed \in { "chat", "highQuality" } =>
          \A i \in DOMAIN hcalls :
             (hcalls[i].provider = "gemini" /\ Fatal(hcalls[i].answer)) =>
                /\ i = Len(hcalls)
                /\ hpc = "done"
                /\ LastResponse.success = FALSE
                /\ LastResponse.error = hcalls[i].answer

\* C8, witness: chatWithGemini ended by a fatal failure of its second model,
\* two models left untried.
C8_Witness ==
    /\ deployed = "chat"
    /\ Len(hcalls) = 2
    /\ TaxonomyRetryable(hcalls[1].answer)
    /\ Fatal(hcalls[2].answer)
    /\ hpc = "done"

\* C9: in the modelsToTry loop, in generateWithHuggingFace and in the
\* primary / fallback image generation, a candidate failure that is not
\* retryable ends the routing: no candidate is invoked after it.
C9_FatalEndsRouting ==
    deployed \in { "geminiOnly", "highQuality", "chat" } =>
        \A i \in DOMAIN hcalls :
            ( /\ Fatal(hcalls[i].answer)
              /\ \/ deployed = "geminiOnly"
                 \/ hcalls[i].provider = "huggingface" )
            => i = Len(hcalls)

\* C10: chatWithGemini returns the result of the first model of
\* GEMINI_MODELS that succeeds: the models invoked are those before the
\* winner, each having failed retryably, then the winner, each once and in
\* declaration order, and the handler reports the winner.
C10_FirstSuccessWins ==
    deployed = "chat" =>
        \A k \in DOMAIN hcalls :
            (hcalls[k].provider = "gemini" /\ hcalls[k].answer = "ok") =>
                /\ k = Len(hcalls)
                /\ \A i \in 1 .. k :
                      /\ hcalls[i].provider = "gemini"
                      /\ hcalls[i].model = GEMINI_MODELS[i]
                      /\ i < k => TaxonomyRetryable(hcalls[i].answer)
                /\ hpc = "done"
                /\ Len(responses) = 1
                /\ LastResponse.success = TRUE
                /\ LastResponse.modelUsed = GEMINI_MODELS[k]
                /\ LastResponse.from = k

\* C10, witness: the third model wins after two retryable failures.
C10_Witness ==
    /\ deployed = "chat"
    /\ Len(hcalls) = 3
    /\ hcalls[3].provider = "gemini"
    /\ hcalls[3].answer = "ok"
    /\ LastResponse.modelUsed = GEMINI_MODELS[3]

\* ------------------------------------------- properties: exhaustion, winner

\* The response says success: true / success: false.
SaysSuccess(r) == "success" \in DOMAIN r /\ r.success

SaysFailure(r) == "success" \in DOMAIN r /\ ~r.success

Min(a, b) == IF a < b THEN a ELSE b

\* Every invocation of the sequence was answered with a retryable failure.
AllRetryable(attempts) ==
    /\ attempts # << >>
    /\ \A i \in DOMAIN attempts : Outcome(attempts[i].answer) = "retryable-failure"

\* chatWithGemini is over: the handler has answered or has gone on to Grok.
ChatWithGeminiOver == GeminiCalls # << >> /\ hpc \in { "grok", "done" }

\* C11: a routing call all of whose invocations failed with a retryable
\* error fails after min(number of candidates of the capability, attempt
\* cap) invocations: min(models of the type, 5) for callGeminiAPI, every
\* entry of GEMINI_MODELS for chatWithGemini.
C11_ExhaustionCount ==
    /\ \A c \in Calls :
          (Completed(calls[c]) /\ AllRetryable(calls[c].attempts)) =>
             /\ calls[c].pc = "thrown"
             /\ Len(calls[c].attempts)
                   = Min(Cardinality(OfType(calls[c].modelType)), 5)
    /\ (deployed = "chat" /\ ChatWithGeminiOver /\ AllRetryable(GeminiCalls)) =>
          /\ Len(GeminiCalls) = Len(GEMINI_MODELS)
          /\ ~(hpc = "done" /\ Len(hcalls) = Len(GeminiCalls)
                 /\ SaysSuccess(LastResponse))

\* The name a response reports names the candidate invoked: the model
\* itself, or for an imageModel of the request the function it selects.
Reports(reported, invoked) ==
    \/ reported = invoked
    \/ /\ reported \in { "flux", "stable", "simple" }
       /\ HfModel(ChatPrimary(reported)) = invoked

\* C12: a response with success: true that names a winner names the
\* candidate whose invocation was the last one made and succeeded, the one
\* whose output the response carries, a fallback image model included.
C12_WinnerIsProducer ==
    deployed \in { "chat", "highQuality" } =>
        \A k \in DOMAIN responses :
            (SaysSuccess(responses[k]) /\ responses[k].modelUsed # None) =>
                /\ responses[k].from = Len(hcalls)
                /\ Succeeded(hcalls[Len(hcalls)].answer)
                /\ Reports(responses[k].modelUsed, hcalls[Len(hcalls)].model)

\* C13: each Gemini router advances to the next candidate after an error of
\* the taxonomy's retryable class and ends the call after any other error.
C13_ClassifierMatchesTaxonomy ==
    /\ \A c \in Calls : \A i \in DOMAIN calls[c].attempts :
          LET a == calls[c].attempts[i].answer
              ended == /\ calls[c].pc = "thrown"
                       /\ i = Len(calls[c].attempts)
                       /\ calls[c].attempt < AttemptCap
          IN  /\ (Failed(a) /\ TaxonomyRetryable(a)) => ~ended
              /\ Fatal(a) => ended
    /\ deployed \in { "chat", "highQuality" } =>
          \A i \in DOMAIN hcalls :
             hcalls[i].provider = "gemini" =>
                LET a == hcalls[i].answer
                    ended == i = Len(hcalls) /\ hpc = "done"
                IN  /\ (Failed(a) /\ TaxonomyRetryable(a)) => ~ended
                    /\ Fatal(a) => ended

\* C14: a POST with valid input all of whose provider invocations failed is
\* answered 200 with success: false and a text, never 500.
C14_ExhaustionIs200 ==
    ( /\ deployed \in { "chat", "highQuality", "geminiOnly", "multilingual", "free" }
      /\ req.method = "POST"
      /\ hpc = "done"
      /\ hcalls # << >>
      /\ \A i \in DOMAIN hcalls : Failed(hcalls[i].answer) )
    => /\ LastResponse.status = 200
       /\ SaysFailure(LastResponse)
       /\ LastResponse.text # None

\* --------------------------------------------------- properties: handlers

\* The deployments that are a request handler.
Handlers == { "chat", "highQuality", "geminiOnly", "multilingual", "free" }

\* The handler is suspended at the await of a provider call.
AwaitsProvider == hcalls # << >> /\ hcalls[Len(hcalls)].answer = "pending"

\* C15: each handler sends exactly one response, whatever the providers
\* answer: never a second one, one when it has finished, and while it has
\* not finished it is waiting for a provider (or a timer, or an error body),
\* no error having escaped it.
C15_ExactlyOneResponse ==
    deployed \in Handlers =>
        /\ Len(responses) <= 1
        /\ hpc = "done" <=> Len(responses) = 1
        /\ hpc \notin { "idle", "done", "simpleWait", "errorData" } => AwaitsProvider
        /\ hpc \in { "simpleWait", "errorData" } => Failed(hcalls[Len(hcalls)].answer)

\* C15, witness: the multilingual handler answered once after every one of
\* its provider calls had failed, the one made in its catch block included.
C15_Witness ==
    /\ deployed = "multilingual"
    /\ hpc = "done"
    /\ Len(hcalls) >= 4
    /\ \A i \in DOMAIN hcalls : Failed(hcalls[i].answer)
    /\ Len(responses) = 1

\* C16: a response that reports the outcome of provider routing has a
\* boolean success and a text and status 200; success is true exactly when
\* an invocation of this request succeeded and text carries its output.
C16_SuccessAndText ==
    (deployed \in Handlers /\ hpc = "done" /\ hcalls # << >>) =>
        /\ "success" \in DOMAIN LastResponse
        /\ LastResponse.text # None
        /\ LastResponse.status = 200
        /\ LastResponse.success <=>
              /\ LastResponse.from \in DOMAIN hcalls
              /\ Succeeded(hcalls[LastResponse.from].answer)

\* message and images both absent or empty
EmptyInput(body) == ~Truthy(body.message) /\ body.images = 0

\* C17: a POST with neither message nor images is answered 400 and no
\* provider is invoked for it.
C17_EmptyInputIs400 ==
    (deployed \in Handlers /\ req.method = "POST" /\ EmptyInput(req.body)) =>
        /\ hcalls = << >>
        /\ hpc = "done"
        /\ LastResponse.status = 400

\* The branch the deployed handler takes for a body.
BranchTaken(body) ==
    CASE deployed = "chat"         -> ChatBranch(body)
      [] deployed = "highQuality"  -> HqBranch(body)
      [] deployed = "multilingual" -> MlBranch(body)
      [] deployed = "free"         -> FreeBranch(body)
      [] OTHER                     -> GeminiOnlyMode(body)

\* C18: a POST with images and a mode that is not 'generate' (or no mode)
\* takes the image analysis branch, the one that passes the images to the
\* provider, and is never answered 400.
C18_ModeInferred ==
    ( /\ deployed \in { "chat", "highQuality", "multilingual", "free" }
      /\ req.method = "POST"
      /\ req.body.images > 0
      /\ req.body.mode # "generate" )
    => /\ BranchTaken(req.body) = "analyze"
       /\ hpc = "done" => LastResponse.status # 400

\* C19: an OPTIONS request is answered 200 with no body, another method
\* that is not POST 405; whatever body the request carries, nothing of it
\* shows and no provider is invoked.
C19_MethodsAnswered ==
    (deployed \in Handlers /\ req.method \notin { "POST", None }) =>
        /\ hcalls = << >>
        /\ hpc = "done"
        /\ Len(responses) = 1
        /\ LastResponse.status = IF req.method = "OPTIONS" THEN 200 ELSE 405
        /\ "success" \notin DOMAIN LastResponse
        /\ LastResponse.mode = None /\ LastResponse.modelUsed = None
        /\ LastResponse.text = None
        /\ req.method = "OPTIONS" => LastResponse.error = None

\* C19, witness: a GET whose body, in a POST, would start an image
\* generation, answered 405.
C19_Witness ==
    /\ deployed = "multilingual"
    /\ env = Configured
    /\ req.method = "GET"
    /\ req.body.mode = "generate" /\ req.body.message = "hello"
    /\ LastResponse.status = 405
    /\ hcalls = << >>

\* The request took the path to generateWithHuggingFace and the function
\* found its key missing: the catch block of the image generation branch
\* runs though no model was asked for the image with success.
HuggingFaceKeyMissed ==
    /\ ~env.HUGGINGFACE_API_KEY
    /\ MlBranch(req.body) = "generate"
    /\ \E i \in DOMAIN hcalls : hcalls[i].step = "message"
    /\ \A j \in MlCandidates(hcalls) : hcalls[j].answer # "image"

\* C20: when a key the request's path requires is missing, the request is
\* answered once with a 500-class status and no provider call is made for
\* it, before or after the key is found missing.
C20_MissingKey ==
    (deployed = "multilingual" /\ req.method = "POST") =>
        /\ (~env.GEMINI_API_KEY /\ MlBranch(req.body) \notin { "video", "none" }) =>
              /\ hcalls = << >>
              /\ hpc = "done"
              /\ Len(responses) = 1
              /\ LastResponse.status >= 500
        /\ (env.GEMINI_API_KEY /\ HuggingFaceKeyMissed) =>
              /\ hcalls = << >>
              /\ hpc = "done" => (Len(responses) = 1 /\ LastResponse.status >= 500)


\* The models of the catalog that getBestModel(type) chooses among, given the
\* failed set it finds: those of the type that are not failed, all those of
\* the type when none is left.
Selectable(type, failed) ==
    LET ofType == { i \in DOMAIN catalog : catalog[i].type = type }
        left == { i \in ofType : catalog[i].name \notin failed }
    IN  IF left = {} THEN ofType ELSE left

\* A state just after getBestModel returned to call c: called on its own, or
\* by callGeminiAPI at its entry.
JustSelected(c) ==
    \/ calls[c].pc = "getBestModel"
    \/ calls[c].pc = "generateContent" /\ calls[c].attempt = 0
    \/ calls[c].pc = "thrown" /\ calls[c].attempts = << >>

\* C21: when the catalog holds no model of the requested type, getBestModel
\* returns no model, and callGeminiAPI throws its no-candidates error at once,
\* having invoked no provider.
C21_NoCandidates ==
    \A c \in Calls :
        Selectable(calls[c].modelType, {}) = {} =>
            /\ calls[c].pc = "getBestModel" => calls[c].modelName = None
            /\ calls[c].pc \notin { "idle", "getBestModel" } =>
                  /\ calls[c].pc = "thrown"
                  /\ calls[c].thrown = "No available models for this task type"
                  /\ calls[c].attempts = << >>

C21_Witness ==
    /\ calls[1].pc = "thrown"
    /\ calls[1].modelType = "image_generate"
    /\ catalog = modelsTextOnly
    /\ calls[1].attempts = << >>

\* C28: for a type that has a model, getBestModel returns a model of that
\* type that is not failed when the call returns and whose priority is the
\* least among the models of the type that were not failed (among all the
\* models of the type when all of them were failed).
C28_BestOfType ==
    \A c \in Calls :
        LET pool == Selectable(calls[c].modelType, calls[c].before) IN
        (JustSelected(c) /\ pool # {}) =>
            /\ \E i \in DOMAIN catalog : /\ catalog[i].name = calls[c].modelName
                                         /\ catalog[i].type = calls[c].modelType
            /\ calls[c].modelName \notin failedModels
            /\ \A i \in pool : PriorityOf(calls[c].modelName) <= catalog[i].priority

C28_Witness ==
    /\ calls[1].pc = "getBestModel"
    /\ calls[1].modelType = "text"
    /\ NamesOfType("text") \subseteq calls[1].before
    /\ calls[1].modelName = "gemini-2.0-flash-lite"

\* C29: getBestModel(type), for a type that has models, leaves the failed
\* status of every model of another type as it was, also when every model of
\* the type is failed and it resets the failed set.
C29_OtherTypesKept ==
    \A c \in Calls :
        (JustSelected(c) /\ Selectable(calls[c].modelType, {}) # {}) =>
            { m \in failedModels : TypeOf(m) # calls[c].modelType }
                = { m \in calls[c].before : TypeOf(m) # calls[c].modelType }


\* C22: no routing call returns a result or reports exhaustion before it has
\* invoked a candidate: a callGeminiAPI call that returned, or threw anything
\* but its no-candidates error, has an answered invocation, and so has a
\* chatWithGemini call that is over.
C22_InvokedBeforeOutcome ==
    /\ \A c \in Calls :
          (Completed(calls[c])
             /\ calls[c].thrown # "No available models for this task type") =>
                /\ calls[c].attempts # << >>
                /\ calls[c].attempts[1].answer # "pending"
    /\ (deployed = "chat" /\ req.method = "POST" /\ hpc \in { "grok", "done" }
          /\ ChatBranch(req.body) \in { "analyze", "chat" }) =>
             /\ GeminiCalls # << >>
             /\ GeminiCalls[1].answer # "pending"

C22_Witness ==
    \E c \in Calls :
        /\ calls[c].pc = "returned"
        /\ Len(calls[c].attempts) = 1
        /\ calls[c].attempts[1].answer = "ok"

\* C23: in the handlers with a Grok backup, a Grok invocation is the last
\* invocation of its request (so there is at most one and the Gemini loop is
\* not entered again), and before it every model of GEMINI_MODELS has been
\* invoked, in order, and has failed.
C23_GrokLastResort ==
    deployed \in { "chat", "highQuality" } =>
        LET gemini == IF deployed = "chat" THEN GEMINI_MODELS ELSE GEMINI_MODELS_HQ IN
        \A i \in DOMAIN hcalls :
            hcalls[i].provider = "grok" =>
                /\ i = Len(hcalls)
                /\ i = Len(gemini) + 1
                /\ \A j \in 1 .. i - 1 :
                      /\ hcalls[j].provider = "gemini"
                      /\ hcalls[j].model = gemini[j]
                      /\ Failed(hcalls[j].answer)

C23_Witness ==
    /\ deployed = "chat"
    /\ hpc = "done"
    /\ Len(hcalls) = Len(GEMINI_MODELS) + 1
    /\ hcalls[Len(hcalls)].provider = "grok"
    /\ hcalls[Len(hcalls)].answer = "500"

\* C24: when every model of generateWithHuggingFace answers 503, the three
\* models have been invoked once each in declaration order, and the handler
\* answers status 200 with success: false.
C24_All503 ==
    (/\ deployed = "highQuality"
     /\ hpc = "done"
     /\ hcalls # << >>
     /\ \A i \in DOMAIN hcalls : /\ hcalls[i].provider = "huggingface"
                                 /\ hcalls[i].answer = "503") =>
        /\ Len(hcalls) = 3
        /\ \A i \in DOMAIN hcalls : hcalls[i].model = HqImageModels[i]
        /\ Len(responses) = 1
        /\ LastResponse.status = 200
        /\ SaysFailure(LastResponse)

C24_Witness ==
    /\ deployed = "highQuality"
    /\ hpc = "done"
    /\ Len(hcalls) = 3
    /\ \A i \in DOMAIN hcalls : hcalls[i].answer = "503"

\* The invocations of a sequence that are still in flight.
Pending(h) == { i \in DOMAIN h : h[i].answer = "pending" }

\* C25: within one request, and within one callGeminiAPI call, at most one
\* provider invocation is in flight, and it is the latest one: every earlier
\* one has been answered.
C25_OneInFlight ==
    /\ Pending(hcalls) \subseteq { Len(hcalls) }
    /\ \A c \in Calls : Pending(calls[c].attempts) \subseteq { Len(calls[c].attempts) }

C25_Witness ==
    /\ Len(hcalls) >= 3
    /\ Pending(hcalls) = { Len(hcalls) }


\* C26: in every Gemini routing loop the invocation of a next candidate
\* starts from the pause step: a step that adds an invocation after an
\* earlier one of the same callGeminiAPI call, or a Gemini invocation after
\* an earlier Gemini invocation of the same chatWithGemini call, is taken by a
\* call or a handler that was pausing.
C26_PauseBeforeNext ==
    [][ /\ \A c \in Calls :
              (/\ calls[c].attempts # << >>
               /\ Len(calls'[c].attempts) > Len(calls[c].attempts)) =>
                  calls[c].pc = "sleep"
        /\ (/\ deployed \in { "chat", "highQuality" }
            /\ hcalls # << >>
            /\ Len(hcalls') > Len(hcalls)
            /\ hcalls[Len(hcalls)].provider = "gemini"
            /\ hcalls'[Len(hcalls')].provider = "gemini") =>
               hpc = "sleep" ]_vars


\* The answered invocations of model m by call c, as positions of its attempts.
AnsweredOn(c, m) ==
    { i \in DOMAIN calls[c].attempts :
        /\ calls[c].attempts[i].model = m
        /\ calls[c].attempts[i].answer # "pending" }

Max(S) == CHOOSE x \in S : \A y \in S : y <= x

\* C27: a model is in failedModels only if its most recent attempt ended
\* with a retryable failure: some call has an answered invocation of it, and
\* when one call alone has invoked it the last of these failed with an error
\* of the retryable class.  A fatal error leaves the model selectable.
C27_FailedOnlyByRetryable ==
    \A m \in failedModels :
        /\ \E c \in Calls : AnsweredOn(c, m) # {}
        /\ \A c \in Calls :
              (/\ AnsweredOn(c, m) # {}
               /\ \A d \in Calls \ {c} : AnsweredOn(d, m) = {}) =>
                  LET last == calls[c].attempts[Max(AnsweredOn(c, m))].answer IN
                  Failed(last) /\ TaxonomyRetryable(last)


\* getBestModel has just returned model m to a call, which invokes it.
Selected(m) ==
    \E c \in Calls : calls[c].pc = "generateContent" /\ calls[c].modelName = m

\* A request of the type has just entered callGeminiAPI.
Arrived(type) ==
    \E c \in Calls : /\ calls[c].pc = "generateContent"
                     /\ calls[c].attempt = 0
                     /\ calls[c].modelType = type

\* C30: a model marked failed is selected again: if requests of its type
\* keep arriving, then whatever the provider answers, a model that is in
\* failedModels is returned by getBestModel at some later point.
C30_FailedSelectedAgain ==
    \A m \in ModelNames :
        []<>Arrived(TypeOf(m)) => ((m \in failedModels) ~> Selected(m))


\* The requests of the user that reached the Gemini call, and those served.
ReachedGemini == { r \in ServerRequests : server.requests[r].invoked }

Served == { r \in ServerRequests : server.requests[r].status = 200 }

\* C31: under any interleaving of the requests of one user to /api/generate,
\* at most daily_limit requests reach the Gemini call; once every request is
\* over, daily_used is the number of requests served; and a request that
\* found daily_used at daily_limit is answered 429 without a provider call.
C31_DailyLimitKept ==
    deployed = "server" =>
        /\ Cardinality(ReachedGemini) <= server.daily_limit
        /\ (\A r \in ServerRequests : server.requests[r].pc \in { "idle", "done" }) =>
              server.daily_used = Cardinality(Served)
        /\ \A r \in ServerRequests :
              (/\ server.requests[r].api_key = "ds_user"
               /\ server.requests[r].pc \notin { "idle", "findOne" }
               /\ server.requests[r].found >= server.daily_limit) =>
                  /\ server.requests[r].status = 429
                  /\ ~server.requests[r].invoked


\* The invocations of a request made by one function of the multilingual
\* module, as positions of hcalls.
StepsOf(step) == { i \in DOMAIN hcalls : hcalls[i].step = step }

\* The invocations generateImageSmart makes for the image, by provider.
SmartCalls(provider) ==
    { i \in StepsOf("candidate") : hcalls[i].provider = provider }

\* The request is in the text-to-image branch of the multilingual handler.
TextToImage ==
    /\ deployed = "multilingual"
    /\ req.method = "POST"
    /\ env.GEMINI_API_KEY
    /\ MlBranch(req.body) = "generate"

\* C32: in generateImageSmart a Gemini image model is invoked only after
\* checkPromptSafety answered SAFE; Hugging Face is invoked at most once, and
\* only after the Gemini image models were skipped or were all invoked, in
\* order, and failed; and the request fails only if no Gemini model was left
\* and the Hugging Face call failed.
C32_SmartOrder ==
    TextToImage =>
        /\ SmartCalls("gemini") # {} =>
              \A i \in StepsOf("safety") : hcalls[i].answer = "SAFE"
        /\ Cardinality(SmartCalls("huggingface")) <= 1
        /\ \A i \in SmartCalls("huggingface") :
              \/ /\ SmartCalls("gemini") = {}
                 /\ \A j \in StepsOf("safety") :
                       hcalls[j].answer \in SafetyAnswers \ { "SAFE" }
              \/ /\ Cardinality(SmartCalls("gemini")) = Len(geminiModels)
                 /\ \A j \in SmartCalls("gemini") :
                       /\ j < i
                       /\ hcalls[j].model
                             = geminiModels[Cardinality({ k \in SmartCalls("gemini") : k <= j })]
                       /\ Failed(hcalls[j].answer)
        /\ (hpc = "done" /\ SaysFailure(LastResponse)) =>
              /\ \A j \in SmartCalls("gemini") : Failed(hcalls[j].answer)
              /\ \/ ~env.HUGGINGFACE_API_KEY
                 \/ \E i \in SmartCalls("huggingface") : Failed(hcalls[i].answer)

C32_Witness ==
    /\ TextToImage
    /\ hpc = "done"
    /\ Cardinality(SmartCalls("gemini")) = 2
    /\ \E i \in SmartCalls("huggingface") : hcalls[i].answer = "200"
    /\ SaysSuccess(LastResponse)


\* C33: generateWithGemini invokes its image models in their fixed order,
\* each at most once; it returns at the first answer that carries image
\* data; an answer that is text only and an error both let the next model be
\* invoked; it throws only when all three were invoked and none gave an image.
C33_NativeOrder ==
    deployed = "generateWithGemini" =>
        /\ Len(hcalls) <= 3
        /\ \A i \in DOMAIN hcalls :
              /\ hcalls[i].model
                    = << "imagen-3.0-generate",
                         "gemini-2.0-flash-preview-image-generation",
                         "veo-2.0-generate-001" >>[i]
              /\ i < Len(hcalls) =>
                    hcalls[i].answer \in { "text", "no response" } \cup GeminiErrors
        /\ hpc = "returned" =>
              hcalls[Len(hcalls)].answer \in { "inlineData", "data:image" }
        /\ hpc = "thrown" =>
              /\ Len(hcalls) = 3
              /\ hcalls[3].answer \in { "text", "no response" } \cup GeminiErrors

C33_Witness ==
    /\ deployed = "generateWithGemini"
    /\ hpc = "returned"
    /\ Len(hcalls) = 3
    /\ hcalls[1].answer = "text"
    /\ hcalls[2].answer = "400 invalid request"


\* An invocation made for the image itself gave one.
ImageMade ==
    \E i \in StepsOf("candidate") : hcalls[i].answer \in { "image", "200" }

\* C34: in the text-to-image path of the multilingual handler the response
\* says success exactly when the image generation gave an image, whatever
\* the prompt enhancement, the safety check and the message generation
\* answered; and once the enhancement is answered the image generation is
\* attempted: a model is invoked for the image, unless the Gemini models were
\* skipped and Hugging Face has no key to be invoked with.
C34_SuccessIsImage ==
    TextToImage =>
        /\ hpc = "done" =>
              /\ Len(responses) = 1
              /\ LastResponse.status = 200
              /\ SaysSuccess(LastResponse) <=> ImageMade
              /\ SaysFailure(LastResponse) <=> ~ImageMade
        /\ hpc \in { "message", "done" } =>
              \/ StepsOf("candidate") # {}
              \/ /\ ~env.HUGGINGFACE_API_KEY
                 /\ \A i \in StepsOf("safety") : hcalls[i].answer # "SAFE"
        /\ (StepsOf("enhance") # {} /\ hcalls[1].answer # "pending") =>
              StepsOf("safety") # {}

C34_Witness ==
    /\ TextToImage
    /\ hpc = "done"
    /\ \A i \in StepsOf("enhance") \cup StepsOf("safety") \cup StepsOf("message") :
          hcalls[i].answer \in MlErrors
    /\ ImageMade
    /\ SaysSuccess(LastResponse)


\* The request is a POST with mode 'generate' and a non-empty message.
GenerateRequest ==
    /\ req.method = "POST"
    /\ req.body.mode = "generate"
    /\ Truthy(req.body.message)

\* The handler is in its text-chat or image-analysis path: at a call of
\* chatWithGemini or chatWithGrok, or at the Gemini call of those branches.
InChatOrAnalysis == hpc \in { "gemini", "grok", "analyze", "chat" }

\* C35: a POST with mode 'generate' and a non-empty message is handled by a
\* generation branch whatever its mediaType and its images: the handler is
\* never in its text-chat or image-analysis path, and no response to it
\* carries mode 'chat' or 'analyze'.
C35_GenerateStaysGenerate ==
    (deployed \in { "chat", "highQuality", "multilingual", "free" }
       /\ GenerateRequest) =>
          /\ ~InChatOrAnalysis
          /\ \A k \in DOMAIN responses : responses[k].mode \notin { "chat", "analyze" }

====
